---- MODULE Spec2Model ----
(***************************************************************************)
(* Model of CasADi's LinearSolverInternal                                  *)
(* (symbolic/fx/linear_solver_internal.cpp): construction and structural   *)
(* validation, the prepare/solve protocol of the numeric entry points      *)
(* (evaluate, solve, evaluateDGen), the symbolic sensitivity rules         *)
(* (evaluateMXGen) and the sparsity propagation (propagateSparsityGen).    *)
(***************************************************************************)
EXTENDS Integers, Sequences, FiniteSets, TLC

VARIABLES self, heap, log, status, call, mx, bv

vars == <<self, heap, log, status, call, mx, bv>>

\* ------------------------------------------------------------------------
\* Bounds of the model
\* ------------------------------------------------------------------------
MaxRows == 3     \* largest number of rows of a candidate pattern
MaxCols == 2     \* largest number of columns of a candidate pattern
MaxNrhs == 2     \* largest number of right-hand sides at construction
MaxFwd == 2      \* largest number of forward directions of one evaluation
MaxAdj == 2      \* largest number of adjoint directions of one evaluation
MaxMarks == 2    \* largest number of dependency masks written from outside

\* ------------------------------------------------------------------------
\* Sparsity patterns and the structural validation of the constructor
\* ------------------------------------------------------------------------
NullSparsity == [null |-> TRUE, size1 |-> 0, size2 |-> 0, nz |-> {}]

Patterns ==
  {NullSparsity} \cup
  UNION { UNION { { [null |-> FALSE, size1 |-> r, size2 |-> c, nz |-> s] :
                      s \in SUBSET ((1..r) \X (1..c)) } :
                  c \in 1..MaxCols } : r \in 1..MaxRows }

Max2(a, b) == IF a >= b THEN a ELSE b

RECURSIVE SetMax(_)
SetMax(S) == IF S = {} THEN 0
             ELSE LET x == CHOOSE y \in S : TRUE
                  IN Max2(x, SetMax(S \ {x}))

\* Size of a maximum matching between the rows in `rows` and the columns in
\* `cols` that uses only structural nonzeros.
RECURSIVE Matching(_, _, _)
Matching(rows, cols, nz) ==
  IF rows = {} \/ cols = {} THEN 0
  ELSE LET i == CHOOSE r \in rows : TRUE
           rest == rows \ {i}
       IN Max2(Matching(rest, cols, nz),
               SetMax({ 1 + Matching(rest, cols \ {j}, nz) :
                          j \in {c \in cols : <<i, c>> \in nz} }))

\* Structural rank of a pattern.
rank(sp) == Matching(1..sp.size1, 1..sp.size2, sp.nz)

isSingular(sp) == rank(sp) # sp.size2

Unconstructed ==
  [state |-> "unconstructed", error |-> "", sparsity |-> NullSparsity,
   nrhs |-> 0, input_ |-> <<>>, output_ |-> <<>>, decomposed |-> FALSE,
   inited |-> FALSE, prepared_ |-> FALSE, fact |-> <<>>, factCurrent |-> FALSE]

Failed(sp, nrhs, err) ==
  [Unconstructed EXCEPT !.state = "failed", !.error = err,
                        !.sparsity = sp, !.nrhs = nrhs]

\* A zero-valued matrix buffer: its shape and one value per stored entry.
DMatrixSparse(sp) ==
  [size1 |-> sp.size1, size2 |-> sp.size2, nnz |-> Cardinality(sp.nz)]

DMatrixDense(n1, n2) == [size1 |-> n1, size2 |-> n2, nnz |-> n1 * n2]

\* Faulty variant of the constructor: the buffers are allocated before the
\* consistency checks, so a rejected pattern leaves them behind.
LinearSolverInternal_allocFirst(sp, nrhs) ==
  LET alloc == [Unconstructed EXCEPT
                  !.sparsity = sp, !.nrhs = nrhs,
                  !.input_ = <<DMatrixSparse(sp), DMatrixDense(nrhs, sp.size1)>>,
                  !.output_ = <<DMatrixDense(nrhs, sp.size1)>>]
  IN IF sp.null THEN [alloc EXCEPT !.state = "failed", !.error = "null"]
     ELSE IF sp.size1 # sp.size2
       THEN [alloc EXCEPT !.state = "failed", !.error = "not square"]
     ELSE IF isSingular(sp)
       THEN [alloc EXCEPT !.state = "failed", !.error = "singular"]
     ELSE [alloc EXCEPT !.state = "constructed", !.decomposed = TRUE]

\* The constructor: three assertions, the Dulmage-Mendelsohn decomposition,
\* then the allocation of A, B and X.
LinearSolverInternal(sp, nrhs) ==
  IF sp.null THEN Failed(sp, nrhs, "null")
  ELSE IF sp.size1 # sp.size2 THEN Failed(sp, nrhs, "not square")
  ELSE IF isSingular(sp) THEN Failed(sp, nrhs, "singular")
  ELSE [Unconstructed EXCEPT
          !.state = "constructed", !.sparsity = sp, !.nrhs = nrhs,
          !.decomposed = TRUE,
          !.input_ = <<DMatrixSparse(sp), DMatrixDense(nrhs, sp.size1)>>,
          !.output_ = <<DMatrixDense(nrhs, sp.size1)>>]

\* ------------------------------------------------------------------------
\* Numeric buffers.  A dense matrix is a sequence of rows; the values of a
\* matrix with the solver's pattern are a sequence in row-major nonzero
\* order.  The numeric model works on one fixed pattern: 2-by-2 lower
\* triangular.
\* ------------------------------------------------------------------------
SolverPattern ==
  [null |-> FALSE, size1 |-> 2, size2 |-> 2, nz |-> {<<1, 1>>, <<2, 1>>, <<2, 2>>}]

NzSeq == << <<1, 1>>, <<2, 1>>, <<2, 2>> >>

Dim == SolverPattern.size1

\* Element (i,j) of a matrix stored over the solver's pattern.
Elem(a, i, j) ==
  IF \E k \in 1..Len(NzSeq) : NzSeq[k] = <<i, j>>
    THEN a[CHOOSE k \in 1..Len(NzSeq) : NzSeq[k] = <<i, j>>]
    ELSE 0

RECURSIVE SumTo(_, _)
SumTo(f, n) == IF n = 0 THEN 0 ELSE f[n] + SumTo(f, n - 1)

negate(x) == [r \in 1..Len(x) |-> [j \in 1..Len(x[r]) |-> 0 - x[r][j]]]

minus(x, y) == [r \in 1..Len(x) |-> [j \in 1..Len(x[r]) |-> x[r][j] - y[r][j]]]

zeros(x) == [r \in 1..Len(x) |-> [j \in 1..Len(x[r]) |-> 0]]

\* z += x * y, with y stored over the solver's pattern
mul_no_alloc_nn(x, y, z) ==
  [r \in 1..Len(z) |-> [j \in 1..Len(z[r]) |->
     z[r][j] + SumTo([i \in 1..Dim |-> x[r][i] * Elem(y, i, j)], Dim)]]

\* z += x * trans(y), with y stored over the solver's pattern
mul_no_alloc_nt(x, y, z) ==
  [r \in 1..Len(z) |-> [j \in 1..Len(z[r]) |->
     z[r][j] + SumTo([i \in 1..Dim |-> x[r][i] * Elem(y, j, i)], Dim)]]

\* z += trans(x) * y, with z stored over the solver's pattern: only the
\* entries of the pattern are updated
mul_no_alloc_tn(x, y, z) ==
  [k \in 1..Len(z) |->
     z[k] + SumTo([r \in 1..Len(x) |-> x[r][NzSeq[k][1]] * y[r][NzSeq[k][2]]],
                  Len(x))]

\* ------------------------------------------------------------------------
\* The backend behind prepare() and solve(buffer, nrhs, transpose).  It
\* factorizes a lower triangular matrix with diagonal entries 1 or -1 and
\* reports failure for a zero pivot.
\* ------------------------------------------------------------------------
NumericallySingular(a) == \E k \in 1..Len(NzSeq) :
                            NzSeq[k][1] = NzSeq[k][2] /\ a[k] = 0

\* One row x with x * A = b (or x * trans(A) = b when transposed)
SolveRow(a, b, tr) ==
  IF tr THEN LET x1 == b[1] * a[1]
                 x2 == (b[2] - x1 * a[2]) * a[3]
             IN <<x1, x2>>
        ELSE LET x2 == b[2] * a[3]
                 x1 == (b[1] - x2 * a[2]) * a[1]
             IN <<x1, x2>>

SolveRows(a, x, tr) == [r \in 1..Len(x) |-> SolveRow(a, x[r], tr)]

IN_A == <<"input", 0>>
IN_B == <<"input", 1>>
OUT_X == <<"output", 0>>

\* The running state of one handler: m.self is the object, m.heap the
\* buffers, m.log the backend calls made so far, m.status the exception
\* that ended the handler ("ok" while none was thrown).  self.fact is the
\* cached factorization; self.factCurrent records that it was computed
\* after the last write to the A input.
prepare(m) ==
  IF m.status # "ok" THEN m
  ELSE LET a == m.heap[IN_A]
           ok == ~NumericallySingular(a)
       IN [m EXCEPT !.self.prepared_ = ok,
                    !.self.fact = IF ok THEN a ELSE @,
                    !.self.factCurrent = ok,
                    !.log = Append(@, [call |-> "prepare", ok |-> ok])]

\* solve(double* x, int nrhs, bool transpose) of the backend
backendSolve(m, buf, tr) ==
  IF m.status # "ok" THEN m
  ELSE LET entry == [call |-> "solve", buf |-> buf, tr |-> tr,
                     prepared |-> m.self.prepared_,
                     current |-> m.self.factCurrent]
       IN IF m.self.prepared_
            THEN [m EXCEPT !.log = Append(@, entry),
                           !.heap[buf] = SolveRows(m.self.fact, @, tr)]
            ELSE [m EXCEPT !.log = Append(@, entry),
                           !.status = "solve: not prepared"]

\* setInput(val, LINSOL_A)
setInputA(m, val) == [m EXCEPT !.heap[IN_A] = val, !.self.factCurrent = FALSE]

\* LinearSolverInternal::init
init(m) == [m EXCEPT !.self.inited = TRUE, !.self.prepared_ = FALSE]

\* LinearSolverInternal::solve(bool transpose)
solve(m, tr) ==
  backendSolve([m EXCEPT !.heap[OUT_X] = m.heap[IN_B]], OUT_X, tr)

\* LinearSolverInternal::evaluate(int nfdir, int nadir)
evaluate(m, nfdir, nadir) ==
  IF ~(nfdir = 0 /\ nadir = 0)
    THEN [m EXCEPT !.status = "Directional derivatives not supported"]
  ELSE LET m1 == prepare(m)
       IN IF ~m1.self.prepared_
            THEN [m1 EXCEPT !.status = "Preparation failed"]
            ELSE solve(m1, FALSE)

NoCall == [op |-> "none"]

\* Faulty variant of fwdDir: the matrix is factorized again for every direction.
fwdDir_reprepare(m, a, d) ==
  IF m.status # "ok" THEN m
  ELSE LET seed == a.fwdSeed[d][1]
           Ahat == a.fwdSeed[d][2]
           sens == a.fwdSens[d][1]
           X == a.output[1]
           m1 == IF seed # sens THEN [m EXCEPT !.heap[sens] = m.heap[seed]] ELSE m
           m2 == [m1 EXCEPT !.heap[sens] = negate(@)]
           m3 == [m2 EXCEPT !.heap[sens] =
                    IF a.tr THEN mul_no_alloc_nt(m2.heap[X], m2.heap[Ahat], @)
                            ELSE mul_no_alloc_nn(m2.heap[X], m2.heap[Ahat], @)]
           m4 == [m3 EXCEPT !.heap[sens] = negate(@)]
       IN backendSolve(prepare(m4), sens, a.tr)

\* One forward direction of evaluateDGen
fwdDir(m, a, d) ==
  IF m.status # "ok" THEN m
  ELSE LET seed == a.fwdSeed[d][1]
           Ahat == a.fwdSeed[d][2]
           sens == a.fwdSens[d][1]
           X == a.output[1]
           m1 == IF seed # sens THEN [m EXCEPT !.heap[sens] = m.heap[seed]] ELSE m
           m2 == [m1 EXCEPT !.heap[sens] = negate(@)]
           m3 == [m2 EXCEPT !.heap[sens] =
                    IF a.tr THEN mul_no_alloc_nt(m2.heap[X], m2.heap[Ahat], @)
                            ELSE mul_no_alloc_nn(m2.heap[X], m2.heap[Ahat], @)]
           m4 == [m3 EXCEPT !.heap[sens] = negate(@)]
       IN backendSolve(m4, sens, a.tr)

RECURSIVE fwdLoop(_, _, _)
fwdLoop(m, a, d) ==
  IF d > Len(a.fwdSens) THEN m ELSE fwdLoop(fwdDir(m, a, d), a, d + 1)

\* Faulty variant of adjDir: the seed is solved with the primal's transpose flag.
adjDir_sameTranspose(m, a, d) ==
  IF m.status # "ok" THEN m
  ELSE LET seed == a.adjSeed[d][1]
           sensB == a.adjSens[d][1]
           sensA == a.adjSens[d][2]
           X == a.output[1]
           m1 == [m EXCEPT !.heap[seed] = negate(@)]
           m2 == backendSolve(m1, seed, a.tr)
           m3 == [m2 EXCEPT !.heap[sensA] =
                    IF ~a.tr THEN mul_no_alloc_tn(m2.heap[X], m2.heap[seed], @)
                             ELSE mul_no_alloc_tn(m2.heap[seed], m2.heap[X], @)]
       IN IF m2.status # "ok" THEN m2
          ELSE IF seed = sensB
            THEN [m3 EXCEPT !.heap[sensB] = negate(@)]
            ELSE [m3 EXCEPT !.heap[sensB] = minus(@, m3.heap[seed]),
                            !.heap[seed] = zeros(m3.heap[seed])]

\* One adjoint direction of evaluateDGen
adjDir(m, a, d) ==
  IF m.status # "ok" THEN m
  ELSE LET seed == a.adjSeed[d][1]
           sensB == a.adjSens[d][1]
           sensA == a.adjSens[d][2]
           X == a.output[1]
           m1 == [m EXCEPT !.heap[seed] = negate(@)]
           m2 == backendSolve(m1, seed, ~a.tr)
           m3 == [m2 EXCEPT !.heap[sensA] =
                    IF ~a.tr THEN mul_no_alloc_tn(m2.heap[X], m2.heap[seed], @)
                             ELSE mul_no_alloc_tn(m2.heap[seed], m2.heap[X], @)]
       IN IF m2.status # "ok" THEN m2
          ELSE IF seed = sensB
            THEN [m3 EXCEPT !.heap[sensB] = negate(@)]
            ELSE [m3 EXCEPT !.heap[sensB] = minus(@, m3.heap[seed]),
                            !.heap[seed] = zeros(m3.heap[seed])]

RECURSIVE adjLoop(_, _, _)
adjLoop(m, a, d) ==
  IF d > Len(a.adjSeed) THEN m ELSE adjLoop(adjDir(m, a, d), a, d + 1)

\* The factorization and the primal solve of evaluateDGen
primal(m, a) ==
  LET B == a.input[1]
      A == a.input[2]
      X == a.output[1]
      m1 == prepare(setInputA(m, m.heap[A]))
      m2 == IF B # X THEN [m1 EXCEPT !.heap[X] = m1.heap[B]] ELSE m1
  IN backendSolve(m2, X, a.tr)

\* LinearSolverInternal::evaluateDGen
evaluateDGen(m, a) == adjLoop(fwdLoop(primal(m, a), a, 1), a, 1)

\* ------------------------------------------------------------------------
\* The numeric state machine: the object after construction over the
\* solver's pattern, driven by init, external writes and the entry points.
\* ------------------------------------------------------------------------
AData == { <<1, 1, 1>>, <<1, 2, 1>>, <<0, 1, 1>> }
BData == { << <<1, 2>> >> }
ZeroB == << <<0, 0>> >>
DGenB == << <<3, 1>> >>
AdjSensB0 == << <<5, 7>> >>
AdjSensA0 == <<10, 20, 30>>

ObjIds == {IN_A, IN_B, OUT_X}

ObjHeap == [id \in ObjIds |-> heap[id]]

Handler(h) == [self |-> self, heap |-> h, log |-> <<>>, status |-> "ok"]

Commit(m, c) ==
  /\ self' = m.self
  /\ heap' = m.heap
  /\ log' = m.log
  /\ status' = m.status
  /\ call' = c
  /\ UNCHANGED <<mx, bv>>

InitNum ==
  /\ \E p \in BOOLEAN :
       self = [LinearSolverInternal(SolverPattern, 1) EXCEPT !.prepared_ = p]
  /\ heap = [id \in ObjIds |-> IF id = IN_A THEN <<0, 0, 0>> ELSE ZeroB]
  /\ log = <<>>
  /\ status = "ok"
  /\ call = NoCall
  /\ mx = NoCall
  /\ bv = NoCall

DoInit ==
  /\ call.op = "none"
  /\ Commit(init(Handler(ObjHeap)), [op |-> "init"])

\* An external write to the A input of the object
WriteA ==
  /\ call.op = "none"
  /\ self.inited
  /\ \E a \in AData :
       Commit(setInputA(Handler(ObjHeap), a), [op |-> "writeA"])

\* An external write to the B input of the object
WriteB ==
  /\ call.op = "none"
  /\ self.inited
  /\ \E b \in BData :
       Commit([Handler(ObjHeap) EXCEPT !.heap[IN_B] = b], [op |-> "writeB"])

Evaluate ==
  /\ call.op = "none"
  /\ self.inited
  /\ \E nfdir \in 0..1, nadir \in 0..1 :
       Commit(evaluate(Handler(ObjHeap), nfdir, nadir),
              [op |-> "evaluate", nfdir |-> nfdir, nadir |-> nadir,
               heap0 |-> ObjHeap])

Solve ==
  /\ call.op = "none"
  /\ self.inited
  /\ \E tr \in BOOLEAN :
       Commit(solve(Handler(ObjHeap), tr),
              [op |-> "solve", tr |-> tr, heap0 |-> ObjHeap])

\* The argument lists of one evaluateDGen call.  Buffers are named; two
\* arguments that name the same buffer are the same storage.
\* A direction is described by whether its sensitivity buffer is its seed
\* buffer; its seed values depend on the direction's index.
FwdChoice == [alias : BOOLEAN]
AdjChoice == [alias : BOOLEAN]

FwdSeedB(d) == << <<d, 2>> >>
FwdSeedA(d) == <<1, 0, d>>
AdjSeedX(d) == << <<d, 0 - 3>> >>

DGenArgs(tr, aliasX, fc, ac) ==
  [input |-> << <<"B", 0>>, <<"A", 0>> >>,
   output |-> << IF aliasX THEN <<"B", 0>> ELSE <<"X", 0>> >>,
   fwdSeed |-> [d \in 1..Len(fc) |-> << <<"fB", d>>, <<"fA", d>> >>],
   fwdSens |-> [d \in 1..Len(fc) |->
                  << IF fc[d].alias THEN <<"fB", d>> ELSE <<"fX", d>> >>],
   adjSeed |-> [d \in 1..Len(ac) |-> << <<"aX", d>> >>],
   adjSens |-> [d \in 1..Len(ac) |->
                  << IF ac[d].alias THEN <<"aX", d>> ELSE <<"aB", d>>,
                     <<"aA", d>> >>],
   tr |-> tr]

ArgIds(a) ==
  {a.input[1], a.input[2], a.output[1]}
    \cup UNION { {a.fwdSeed[d][1], a.fwdSeed[d][2], a.fwdSens[d][1]} :
                   d \in 1..Len(a.fwdSeed) }
    \cup UNION { {a.adjSeed[d][1], a.adjSens[d][1], a.adjSens[d][2]} :
                   d \in 1..Len(a.adjSeed) }

DGenHeap(a, A, B) ==
  [id \in ObjIds \cup ArgIds(a) |->
     IF id \in ObjIds THEN heap[id]
     ELSE IF id[1] = "A" THEN A
     ELSE IF id[1] = "B" THEN B
     ELSE IF id[1] = "X" THEN ZeroB
     ELSE IF id[1] = "fB" THEN FwdSeedB(id[2])
     ELSE IF id[1] = "fA" THEN FwdSeedA(id[2])
     ELSE IF id[1] = "fX" THEN ZeroB
     ELSE IF id[1] = "aX" THEN AdjSeedX(id[2])
     ELSE IF id[1] = "aB" THEN AdjSensB0
     ELSE AdjSensA0]

EvaluateDGen ==
  /\ call.op = "none"
  /\ self.inited
  /\ \E A \in AData, B \in {DGenB}, tr \in BOOLEAN, aliasX \in BOOLEAN,
        nfwd \in 0..MaxFwd, nadj \in 0..MaxAdj :
       \E fc \in [1..nfwd -> FwdChoice], ac \in [1..nadj -> AdjChoice] :
          LET a == DGenArgs(tr, aliasX, fc, ac)
              h == DGenHeap(a, A, B)
          IN Commit(evaluateDGen(Handler(h), a),
                    [op |-> "evaluateDGen", args |-> a, heap0 |-> h])

\* The caller takes the results of the last call and lets go of its
\* argument buffers; the object and its own buffers stay as they are.
Release ==
  /\ call.op # "none"
  /\ self' = self
  /\ heap' = ObjHeap
  /\ log' = <<>>
  /\ status' = "ok"
  /\ call' = NoCall
  /\ UNCHANGED <<mx, bv>>

NextNum ==
  DoInit \/ WriteA \/ WriteB \/ Evaluate \/ Solve \/ EvaluateDGen \/ Release

SpecNum == InitNum /\ [][NextNum]_vars


InitCtor ==
  /\ self = Unconstructed
  /\ heap = <<>>
  /\ log = <<>>
  /\ status = "ok"
  /\ call = NoCall
  /\ mx = NoCall
  /\ bv = NoCall

Construct ==
  /\ self.state = "unconstructed"
  /\ \E sp \in Patterns, nrhs \in 1..MaxNrhs :
       self' = LinearSolverInternal(sp, nrhs)
  /\ UNCHANGED <<heap, log, status, call, mx, bv>>

\* The destructor; a failed construction leaves no object behind either.
Destroy ==
  /\ self.state # "unconstructed"
  /\ self' = Unconstructed
  /\ UNCHANGED <<heap, log, status, call, mx, bv>>

NextCtor == Construct \/ Destroy

SpecCtor == InitCtor /\ [][NextCtor]_vars

\* ------------------------------------------------------------------------
\* Sparsity propagation.  A bvec_t is a natural number read as a bit
\* vector; A, B and X are sequences of masks, one per stored entry, and
\* rowind is the row index of B's pattern (first entry 0), which X shares.
\* ------------------------------------------------------------------------
RECURSIVE BitOr(_, _)
BitOr(x, y) ==
  IF x = 0 THEN y
  ELSE IF y = 0 THEN x
  ELSE (IF x % 2 = 1 \/ y % 2 = 1 THEN 1 ELSE 0) + 2 * BitOr(x \div 2, y \div 2)

\* acc | s[lo] | ... | s[hi]
RECURSIVE OrRange(_, _, _, _)
OrRange(acc, s, lo, hi) ==
  IF lo > hi THEN acc ELSE OrRange(BitOr(acc, s[lo]), s, lo + 1, hi)

\* The row (counted from 1) that holds the stored entry k (counted from 1)
RowOf(rowind, k) ==
  CHOOSE i \in 1..(Len(rowind) - 1) : rowind[i] < k /\ k <= rowind[i + 1]

\* Faulty variant of propagateFwd: the dependencies are OR-ed into X.
propagateFwd_orInto(st) ==
  LET A_dep == OrRange(0, st.A, 1, Len(st.A))
      AB_dep(i) == OrRange(A_dep, st.B, st.rowind[i] + 1, st.rowind[i + 1])
  IN [st EXCEPT !.X = [k \in 1..Len(st.X) |->
                         BitOr(st.X[k], AB_dep(RowOf(st.rowind, k)))]]

\* The forward pass of propagateSparsityGen
propagateFwd(st) ==
  LET A_dep == OrRange(0, st.A, 1, Len(st.A))
      AB_dep(i) == OrRange(A_dep, st.B, st.rowind[i] + 1, st.rowind[i + 1])
  IN [st EXCEPT !.X = [k \in 1..Len(st.X) |-> AB_dep(RowOf(st.rowind, k))]]

\* Faulty variant of propagateRev: the dependencies of X are not cleared.
propagateRev_keepX(st) ==
  LET X_dep(i) == OrRange(0, st.X, st.rowind[i] + 1, st.rowind[i + 1])
      nrhs == Len(st.rowind) - 1
      X_dep_all == OrRange(0, [i \in 1..nrhs |-> X_dep(i)], 1, nrhs)
  IN [st EXCEPT
        !.B = [k \in 1..Len(st.B) |-> BitOr(st.B[k], X_dep(RowOf(st.rowind, k)))],
        !.A = [j \in 1..Len(st.A) |-> BitOr(st.A[j], X_dep_all)]]

\* The reverse pass of propagateSparsityGen
propagateRev(st) ==
  LET X_dep(i) == OrRange(0, st.X, st.rowind[i] + 1, st.rowind[i + 1])
      nrhs == Len(st.rowind) - 1
      X_dep_all == OrRange(0, [i \in 1..nrhs |-> X_dep(i)], 1, nrhs)
  IN [st EXCEPT
        !.X = [k \in 1..Len(st.X) |-> 0],
        !.B = [k \in 1..Len(st.B) |-> BitOr(st.B[k], X_dep(RowOf(st.rowind, k)))],
        !.A = [j \in 1..Len(st.A) |-> BitOr(st.A[j], X_dep_all)]]

\* LinearSolverInternal::propagateSparsityGen
propagateSparsityGen(st, fwd, tr) ==
  IF fwd THEN propagateFwd(st) ELSE propagateRev(st)

\* Row indices of the right-hand side: dense 2-by-2, rows of different
\* lengths, and an empty row.
RowInds == { <<0, 2, 4>>, <<0, 1, 3>>, <<0, 0, 2>> }

Marks == {1, 2, 3}

Last(s) == s[Len(s)]

InitBv ==
  /\ self = LinearSolverInternal(SolverPattern, 2)
  /\ heap = <<>>
  /\ log = <<>>
  /\ status = "ok"
  /\ call = NoCall
  /\ mx = NoCall
  /\ \E rowind \in RowInds :
       bv = [op |-> "none", rowind |-> rowind, marks |-> 0,
             A |-> [j \in 1..Len(NzSeq) |-> 0],
             B |-> [k \in 1..Last(rowind) |-> 0],
             X |-> [k \in 1..Last(rowind) |-> 0],
             pre |-> <<>>]

\* The graph engine writes the dependency mask of one entry before a pass.
Mark ==
  /\ bv.marks < MaxMarks
  /\ \E mask \in Marks :
       \/ \E j \in 1..Len(bv.A) :
            bv' = [bv EXCEPT !.op = "mark", !.marks = @ + 1, !.pre = <<>>,
                             !.A[j] = mask]
       \/ \E k \in 1..Len(bv.B) :
            bv' = [bv EXCEPT !.op = "mark", !.marks = @ + 1, !.pre = <<>>,
                             !.B[k] = mask]
       \/ \E k \in 1..Len(bv.X) :
            bv' = [bv EXCEPT !.op = "mark", !.marks = @ + 1, !.pre = <<>>,
                             !.X[k] = mask]
  /\ UNCHANGED <<self, heap, log, status, call, mx>>

PropagateSparsity ==
  /\ \E fwd \in BOOLEAN, tr \in BOOLEAN :
       bv' = [propagateSparsityGen(bv, fwd, tr) EXCEPT
                !.op = IF fwd THEN "fwd" ELSE "rev",
                !.pre = [A |-> bv.A, B |-> bv.B, X |-> bv.X]]
  /\ UNCHANGED <<self, heap, log, status, call, mx>>

NextBv == Mark \/ PropagateSparsity

SpecBv == InitBv /\ [][NextBv]_vars

\* Bit b (counted from 0) of the mask x
RECURSIVE Bit(_, _)
Bit(x, b) == IF b = 0 THEN x % 2 = 1 ELSE Bit(x \div 2, b - 1)

Bits == 0..1

RowEntries(rowind, i) == (rowind[i] + 1)..rowind[i + 1]

Sym(name, d, r) ==
  [k |-> "sym", name |-> name, d |-> d, r |-> r, tr |-> FALSE, arg |-> <<>>]

\* A row of the result of the solve node number `node`
SolveAtom(node, tr, row) ==
  [k |-> "solve", name |-> "", d |-> node, r |-> 0, tr |-> tr, arg |-> row]

\* A row of -mul(X, A_hat) or -mul(X, trans(A_hat))
NegMulAtom(xrow, d, tr) ==
  [k |-> "negmul", name |-> "A_hat", d |-> d, r |-> 0, tr |-> tr, arg |-> xrow]

\* -mul(trans(X), rhs, A.sparsity()) or -mul(trans(rhs), X, A.sparsity())
NegMulTNAtom(X, rhs, tr) ==
  [k |-> "negmulTN", name |-> "", d |-> 0, r |-> 0, tr |-> tr, arg |-> <<X, rhs>>]

MXNull == <<>>

sparse(n) == [r \in 1..n |-> <<>>]

isZero(x) == \A r \in 1..Len(x) : x[r] = <<>>

plus(x, y) == [r \in 1..Len(x) |-> x[r] \o y[r]]

RECURSIVE vertcat(_)
vertcat(list) == IF list = <<>> THEN <<>> ELSE Head(list) \o vertcat(Tail(list))

\* The parts of x between consecutive row offsets
vertsplit(x, offset) ==
  [i \in 1..(Len(offset) - 1) |-> SubSeq(x, offset[i] + 1, offset[i + 1])]

\* B_hat - mul(X, A_hat), or B_hat - mul(X, trans(A_hat)) when transposed
residual(B_hat, A_hat, X, d, tr) ==
  [r \in 1..Len(B_hat) |->
     B_hat[r] \o (IF A_hat = <<>> \/ X[r] = <<>> THEN <<>>
                  ELSE <<NegMulAtom(X[r], d, tr)>>)]

\* LinearSolverInternal::solve(const MX& A, const MX& B, bool transpose):
\* one more solve node in the graph; g.val is its result.
solveMX(g, B, tr) ==
  LET node == Len(g.nodes) + 1
  IN [g EXCEPT !.nodes = Append(@, [tr |-> tr, rhs |-> B]),
               !.val = [r \in 1..Len(B) |-> <<SolveAtom(node, tr, B[r])>>]]

\* Nondifferentiated output of evaluateMXGen
primalMX(g, a) ==
  IF a.output_given THEN g
  ELSE IF isZero(a.B) THEN [g EXCEPT !.X = sparse(Len(a.B))]
  ELSE LET g1 == solveMX(g, a.B, a.tr) IN [g1 EXCEPT !.X = g1.val]

\* Faulty variant of fwdCollect: a structurally zero residual is stacked as well.
fwdCollect_noZeroCheck(g, a, d) ==
  LET rhs_d == residual(a.fwdSeed[d][1], a.fwdSeed[d][2], g.X, d, a.tr)
  IN [g EXCEPT !.rhs = Append(@, rhs_d),
               !.rhs_ind = Append(@, d),
               !.row_offset = Append(@, Last(@) + Len(rhs_d))]

\* One forward direction of evaluateMXGen: collect its right-hand side
fwdCollect(g, a, d) ==
  LET rhs_d == residual(a.fwdSeed[d][1], a.fwdSeed[d][2], g.X, d, a.tr)
  IN IF isZero(rhs_d)
       THEN [g EXCEPT !.slots[a.fwdSens[d][1]] = sparse(Len(rhs_d))]
       ELSE [g EXCEPT !.rhs = Append(@, rhs_d),
                      !.rhs_ind = Append(@, d),
                      !.row_offset = Append(@, Last(@) + Len(rhs_d))]

RECURSIVE fwdCollectLoop(_, _, _)
fwdCollectLoop(g, a, d) ==
  IF d > Len(a.fwdSens) THEN g
  ELSE fwdCollectLoop(fwdCollect(g, a, d), a, d + 1)

RECURSIVE fwdSave(_, _, _, _)
fwdSave(g, a, parts, i) ==
  IF i > Len(parts) THEN g
  ELSE fwdSave([g EXCEPT !.slots[a.fwdSens[g.rhs_ind[i]][1]] = parts[i]],
               a, parts, i + 1)

\* The stacked forward solve of evaluateMXGen
fwdSolve(g, a) ==
  IF g.rhs = <<>> THEN g
  ELSE LET g1 == solveMX(g, vertcat(g.rhs), a.tr)
       IN fwdSave(g1, a, vertsplit(g1.val, g1.row_offset), 1)

\* Faulty variant of adjCollect: the test for a shared slot is inverted.
adjCollect_inverted(g, a, d) ==
  LET seed == a.adjSeed[d][1]
      sens == a.adjSens[d][1]
      X_bar == g.slots[seed]
  IN IF isZero(X_bar)
       THEN IF seed = sens
              THEN [g EXCEPT !.slots[sens] = X_bar, !.slots[seed] = MXNull]
              ELSE g
       ELSE [g EXCEPT !.rhs = Append(@, X_bar),
                      !.rhs_ind = Append(@, d),
                      !.row_offset = Append(@, Last(@) + Len(X_bar)),
                      !.slots[seed] = MXNull]

\* One adjoint direction of evaluateMXGen: collect its right-hand side
adjCollect(g, a, d) ==
  LET seed == a.adjSeed[d][1]
      sens == a.adjSens[d][1]
      X_bar == g.slots[seed]
  IN IF isZero(X_bar)
       THEN IF seed # sens
              THEN [g EXCEPT !.slots[sens] = X_bar, !.slots[seed] = MXNull]
              ELSE g
       ELSE [g EXCEPT !.rhs = Append(@, X_bar),
                      !.rhs_ind = Append(@, d),
                      !.row_offset = Append(@, Last(@) + Len(X_bar)),
                      !.slots[seed] = MXNull]

RECURSIVE adjCollectLoop(_, _, _)
adjCollectLoop(g, a, d) ==
  IF d > Len(a.adjSeed) THEN g
  ELSE adjCollectLoop(adjCollect(g, a, d), a, d + 1)

\* Propagation of one stacked adjoint result to the A- and B-adjoint
adjPropagate(g, a, parts, i) ==
  LET d == g.rhs_ind[i]
      sensB == a.adjSens[d][1]
      sensA == a.adjSens[d][2]
      g1 == [g EXCEPT !.slots[sensA] = @ \o <<NegMulTNAtom(g.X, parts[i], a.tr)>>]
  IN IF a.adjSeed[d][1] = sensB
       THEN [g1 EXCEPT !.slots[sensB] = parts[i]]
       ELSE [g1 EXCEPT !.slots[sensB] = plus(@, parts[i])]

RECURSIVE adjSave(_, _, _, _)
adjSave(g, a, parts, i) ==
  IF i > Len(parts) THEN g
  ELSE adjSave(adjPropagate(g, a, parts, i), a, parts, i + 1)

\* The stacked adjoint solve of evaluateMXGen
adjSolve(g, a) ==
  IF g.rhs = <<>> THEN g
  ELSE LET g1 == solveMX(g, vertcat(g.rhs), ~a.tr)
       IN adjSave(g1, a, vertsplit(g1.val, g1.row_offset), 1)

\* LinearSolverInternal::evaluateMXGen.  The result keeps, for the forward
\* and for the adjoint part, the directions stacked, their row offsets and
\* the number of solve nodes in the graph when the part was done.
evaluateMXGen(g, a) ==
  LET g1 == primalMX(g, a)
      g2 == fwdSolve(fwdCollectLoop(g1, a, 1), a)
      g3 == [g2 EXCEPT !.fwd = [rhs_ind |-> g2.rhs_ind, row_offset |-> g2.row_offset,
                                first |-> Len(g1.nodes), last |-> Len(g2.nodes)],
                       !.rhs = <<>>, !.rhs_ind = <<>>, !.row_offset = <<0>>]
      g4 == adjSolve(adjCollectLoop(g3, a, 1), a)
  IN [g4 EXCEPT !.adj = [rhs_ind |-> g4.rhs_ind, row_offset |-> g4.row_offset,
                         first |-> Len(g3.nodes), last |-> Len(g4.nodes)]]

\* The arguments of one evaluateMXGen call.  A slot is named; two arguments
\* that name the same slot are the same pointer.
SymB(name, d, n) == [r \in 1..n |-> <<Sym(name, d, r)>>]

FwdMX == [bz : BOOLEAN, az : BOOLEAN]
AdjMX == [zero : BOOLEAN, alias : BOOLEAN]

MXArgs(n, bz, given, tr, fc, ac) ==
  [B |-> IF bz THEN sparse(n) ELSE SymB("B", 0, n),
   output_given |-> given,
   tr |-> tr,
   fwdSeed |-> [d \in 1..Len(fc) |->
                  << IF fc[d].bz THEN sparse(n) ELSE SymB("B_hat", d, n),
                     IF fc[d].az THEN <<>> ELSE <<Sym("A_hat", d, 0)>> >>],
   fwdSens |-> [d \in 1..Len(fc) |-> << <<"fX", d>> >>],
   adjSeed |-> [d \in 1..Len(ac) |-> << <<"aX", d>> >>],
   adjSens |-> [d \in 1..Len(ac) |->
                  << IF ac[d].alias THEN <<"aX", d>> ELSE <<"aB", d>>,
                     <<"aA", d>> >>]]

MXSlotIds(a) ==
  UNION { {a.fwdSens[d][1]} : d \in 1..Len(a.fwdSens) }
    \cup UNION { {a.adjSeed[d][1], a.adjSens[d][1], a.adjSens[d][2]} :
                   d \in 1..Len(a.adjSeed) }

MXSlots(a, n, ac) ==
  [id \in MXSlotIds(a) |->
     IF id[1] = "fX" THEN MXNull
     ELSE IF id[1] = "aX"
       THEN (IF ac[id[2]].zero THEN sparse(n) ELSE SymB("X_bar", id[2], n))
     ELSE IF id[1] = "aB" THEN SymB("B_bar", id[2], n)
     ELSE <<Sym("A_bar", id[2], 0)>>]

MXGraph(a, n, slots) ==
  [slots |-> slots,
   X |-> IF a.output_given THEN SymB("X", 0, n) ELSE MXNull,
   nodes |-> <<>>, val |-> MXNull,
   rhs |-> <<>>, rhs_ind |-> <<>>, row_offset |-> <<0>>,
   fwd |-> <<>>, adj |-> <<>>]

InitMX ==
  /\ self = LinearSolverInternal(SolverPattern, 1)
  /\ heap = <<>>
  /\ log = <<>>
  /\ status = "ok"
  /\ call = NoCall
  /\ mx = NoCall
  /\ bv = NoCall

EvaluateMXGen ==
  /\ mx.op = "none"
  /\ \E n \in 1..2, bz \in BOOLEAN, given \in BOOLEAN, tr \in BOOLEAN,
        nfwd \in 0..MaxFwd, nadj \in 0..MaxAdj :
       \E fc \in [1..nfwd -> FwdMX], ac \in [1..nadj -> AdjMX] :
          LET a == MXArgs(n, bz, given, tr, fc, ac)
              slots0 == MXSlots(a, n, ac)
          IN mx' = [op |-> "evaluateMXGen", args |-> a, slots0 |-> slots0,
                    g |-> evaluateMXGen(MXGraph(a, n, slots0), a)]
  /\ UNCHANGED <<self, heap, log, status, call, bv>>

\* The graph engine takes the sensitivities out of the slots.
ReleaseMX ==
  /\ mx.op # "none"
  /\ mx' = NoCall
  /\ UNCHANGED <<self, heap, log, status, call, bv>>

NextMX == EvaluateMXGen \/ ReleaseMX

SpecMX == InitMX /\ [][NextMX]_vars

\* ------------------------------------------------------------------------
\* Properties of the symbolic sensitivity rules
\* ------------------------------------------------------------------------
MXDone == mx.op = "evaluateMXGen"

\* The residual of forward direction d of the last call
FwdResidual(d) ==
  residual(mx.args.fwdSeed[d][1], mx.args.fwdSeed[d][2], mx.g.X, d, mx.args.tr)

FwdNonzero == {d \in 1..Len(mx.args.fwdSens) : ~isZero(FwdResidual(d))}

RECURSIVE StackOf(_, _)
StackOf(d, n) ==
  IF d > n THEN <<>>
  ELSE (IF d \in FwdNonzero THEN FwdResidual(d) ELSE <<>>) \o StackOf(d + 1, n)

Range(f) == {f[i] : i \in DOMAIN f}

\* The rows of the result of solve node `node`
NodeResult(node) ==
  [r \in 1..Len(mx.g.nodes[node].rhs) |->
     <<SolveAtom(node, mx.g.nodes[node].tr, mx.g.nodes[node].rhs[r])>>]

\* C7: the forward part of evaluateMXGen emits one solve node when some
\* direction's residual is not structurally zero and none otherwise; a
\* direction with a structurally zero residual gets the zero expression
\* and is not stacked; the node's right-hand side stacks the other
\* residuals in direction order, and each of those directions gets the
\* rows of the node's result between its recorded row offsets.
C7_ForwardBatching ==
  MXDone =>
    LET g == mx.g
        a == mx.args
        node == g.fwd.last
    IN /\ g.fwd.last - g.fwd.first = IF FwdNonzero = {} THEN 0 ELSE 1
       /\ Range(g.fwd.rhs_ind) = FwdNonzero
       /\ \A d \in (1..Len(a.fwdSens)) \ FwdNonzero :
            g.slots[a.fwdSens[d][1]] = sparse(Len(a.B))
       /\ FwdNonzero # {} =>
            /\ g.nodes[node].tr = a.tr
            /\ g.nodes[node].rhs = StackOf(1, Len(a.fwdSens))
       /\ \A i \in 1..Len(g.fwd.rhs_ind) :
            LET d == g.fwd.rhs_ind[i]
            IN /\ i > 1 => g.fwd.rhs_ind[i - 1] < d
               /\ g.slots[a.fwdSens[d][1]] =
                    SubSeq(NodeResult(node), g.fwd.row_offset[i] + 1,
                           g.fwd.row_offset[i + 1])
               /\ g.slots[a.fwdSens[d][1]] =
                    [r \in 1..Len(a.B) |->
                       <<SolveAtom(node, a.tr, FwdResidual(d)[r])>>]

C7_Witness ==
  /\ MXDone
  /\ Len(mx.args.B) = 2
  /\ FwdNonzero = {1, 2}
  /\ mx.g.fwd.row_offset = <<0, 2, 4>>

AdjDirs == 1..Len(mx.args.adjSeed)

ZeroSeeds == {d \in AdjDirs : isZero(mx.slots0[mx.args.adjSeed[d][1]])}

SameSlot(d) == mx.args.adjSeed[d][1] = mx.args.adjSens[d][1]

AdjContribution(d) ==
  LET seed0 == mx.slots0[mx.args.adjSeed[d][1]]
  IN IF d \in ZeroSeeds THEN sparse(Len(seed0))
     ELSE [r \in 1..Len(seed0) |->
             <<SolveAtom(mx.g.adj.last, ~mx.args.tr, seed0[r])>>]

\* C10: a B-adjoint slot distinct from its seed slot holds its previous
\* value plus the direction's contribution after the call; a slot shared
\* with the seed holds the contribution.
C10_AdjointAccumulates ==
  MXDone =>
    \A d \in AdjDirs :
      LET sens == mx.args.adjSens[d][1]
      IN IF SameSlot(d)
           THEN mx.g.slots[sens] = AdjContribution(d)
           ELSE mx.g.slots[sens] = plus(mx.slots0[sens], AdjContribution(d))

\* ------------------------------------------------------------------------
\* Properties of the numeric entry points
\* ------------------------------------------------------------------------
SolveCalls == {i \in 1..Len(log) : log[i].call = "solve"}
PrepareCalls == {i \in 1..Len(log) : log[i].call = "prepare"}

PrepareFailed == \E i \in PrepareCalls : ~log[i].ok

\* C2: when prepare() reports failure during evaluateDGen or evaluate, the
\* evaluation fails, the backend solve is not invoked afterwards and no
\* primal or sensitivity buffer is written.
C2_FailedPrepareAborts ==
  (call.op \in {"evaluateDGen", "evaluate"} /\ PrepareFailed) =>
     /\ status # "ok"
     /\ SolveCalls = {}
     /\ \A id \in DOMAIN heap \ {IN_A} : heap[id] = call.heap0[id]

\* C3: every invocation of the backend solve happens while the adapter is
\* prepared, with a factorization computed after the most recent write to
\* A, and a write to A leaves the adapter unprepared.
C3_SolveOnlyWhenPrepared ==
  /\ \A i \in SolveCalls : log[i].prepared /\ log[i].current
  /\ call.op = "writeA" => ~self.prepared_

\* C4: one evaluateDGen call invokes prepare() exactly once, as its first
\* backend call; the solves of the primal, of each forward direction and of
\* each adjoint direction follow in that order with no prepare() between
\* them, 1 + k + m solves when the call completes.
C4_SinglePrepare ==
  call.op = "evaluateDGen" =>
    LET a == call.args
        k == Len(a.fwdSens)
    IN /\ Len(log) >= 1
       /\ PrepareCalls = {1}
       /\ status = "ok" => Len(log) = 1 + 1 + k + Len(a.adjSeed)
       /\ \A i \in 2..Len(log) :
            log[i].buf = IF i = 2 THEN a.output[1]
                         ELSE IF i <= 2 + k THEN a.fwdSens[i - 2][1]
                         ELSE a.adjSeed[i - 2 - k][1]

C4_Witness ==
  /\ call.op = "evaluateDGen"
  /\ status = "ok"
  /\ Len(call.args.fwdSens) >= 1
  /\ Len(call.args.adjSeed) >= 2

\* C8: in a completed evaluateDGen call every adjoint seed is solved in
\* place with the opposite transpose flag from the primal; a B-adjoint
\* buffer that is the seed buffer ends up holding the solve of the original
\* seed, any other B-adjoint buffer ends up holding its previous value plus
\* that solve, and its seed buffer ends up all zero.
C8_AdjointToB ==
  (call.op = "evaluateDGen" /\ status = "ok") =>
    LET a == call.args
    IN \A d \in 1..Len(a.adjSeed) :
         LET seed == a.adjSeed[d][1]
             sensB == a.adjSens[d][1]
             e == log[2 + Len(a.fwdSens) + d]
             lam == SolveRows(self.fact, call.heap0[seed], ~a.tr)
         IN /\ e.call = "solve" /\ e.buf = seed /\ e.tr = ~a.tr
            /\ seed = sensB => heap[sensB] = lam
            /\ seed # sensB =>
                 /\ heap[sensB] = minus(call.heap0[sensB], negate(lam))
                 /\ heap[seed] = zeros(lam)

C8_Witness ==
  /\ call.op = "evaluateDGen"
  /\ status = "ok"
  /\ call.args.tr
  /\ self.fact[2] # 0
  /\ \E d1, d2 \in 1..Len(call.args.adjSeed) :
       /\ call.args.adjSeed[d1][1] = call.args.adjSens[d1][1]
       /\ call.args.adjSeed[d2][1] # call.args.adjSens[d2][1]

\* ------------------------------------------------------------------------
\* Properties of the constructor
\* ------------------------------------------------------------------------
\* C1: construction succeeds exactly for the square, structurally
\* nonsingular patterns, fails for every non-square or structurally
\* rank-deficient pattern, and a failed construction holds no A, B or X
\* buffer.
C1_ConstructionValidity ==
  self.state # "unconstructed" =>
    /\ (~self.sparsity.null /\ self.sparsity.size1 = self.sparsity.size2
          /\ rank(self.sparsity) = self.sparsity.size1)
         => self.state = "constructed"
    /\ (~self.sparsity.null /\
          (self.sparsity.size1 # self.sparsity.size2
             \/ rank(self.sparsity) < Max2(self.sparsity.size1, self.sparsity.size2)))
         => self.state = "failed"
    /\ self.state = "failed" => (self.input_ = <<>> /\ self.output_ = <<>>)
    /\ self.state = "constructed" =>
         (Len(self.input_) = 2 /\ Len(self.output_) = 1)

C1_Witness_Rejected ==
  /\ self.state = "failed"
  /\ self.error = "singular"
  /\ self.sparsity.size1 = 2
  /\ self.sparsity.nz = {<<1, 1>>}

====
